---- MODULE Spec2Model ----
(***************************************************************************)
(* Model of the DouDouPaint animation/compositing engine:                  *)
(*   - the layered pixel store        (src/stores/PixelStore.js)           *)
(*   - the pixel entity               (src/unnamed/part_011, WigglePixel)  *)
(*   - the animation loop             (src/stores/animation/animationLoop.js, *)
(*                                     first class of the file)            *)
(*   - the frame capture              (src/unnamed/part_017, FrameCapture) *)
(*   - the canvas store entry points  (src/stores/canvasStore.js)          *)
(* The host (animation-frame queue, timers, clock, snapshot API) is the    *)
(* environment: its answers are inputs drawn from small sets.              *)
(***************************************************************************)
EXTENDS Integers, Sequences, FiniteSets, TLC

(***************************************************************************)
(* Bounds of the model                                                     *)
(***************************************************************************)
\* config.maxTotalPixels of the store (3000 in the source), scaled down
maxTotalPixels == 2
\* the same cap where the renderer is studied: one layer can hold three
\* entities of two colours
maxRenderPixels == 3
\* addPixel is disabled once the creation counter reaches this value
MaxCreated == 3
\* the clock stops advancing at this value
MaxTime == 180
\* one step of the clock, in milliseconds
ClockStep == 60
\* at most this many animation-frame callbacks are pending at once
MaxPending == 2

(***************************************************************************)
(* Program constants                                                       *)
(***************************************************************************)
frameInterval == 60
\* default of the parameter maxRetries of uploadImagesToCloud
maxRetries == 3
InitialFrameSkipThreshold == 2
MaxFrameSkipThreshold == 4
MinFrameSkipThreshold == 1
CaptureFrames == 3
DefaultFrameCount == 3

\* the layer buckets of the store, in the order the constructor creates them
LayerKeys == {"marker", "spray", "pencil"}
\* surface coordinates used by the input layer
Xs == {0, 1, 2}
Ys == {0, 1}
\* colours of the entities where the renderer is studied
Colors == {"#000000", "#FF0000"}
\* eraser radii
Radii == {0, 1, 2}
\* lengths of the frame lists the brushes produce
FrameLens == {3}
\* where a tick may raise
Faults == {"none", "advance", "render"}
\* measured duration of a render: > 30 ms, in between, < 15 ms
RenderTimes == {"slow", "mid", "fast"}
\* answers of wx.canvasToTempFilePath
SnapOutcomes == {"ok", "nopath", "fail", "timeout"}

NoId == 0

VARIABLES
  activePixels,     \* Map id -> pixel: the keys in insertion order
  pixelLayers,      \* layer -> Map id -> pixel: the keys in insertion order
  pixels,           \* the pixel objects, by id
  totalPixelCount,  \* creation counter of the store
  config,           \* config of the store: maxTotalPixels
  isRunning,        \* AnimationLoop.isRunning
  isDestroyed,      \* AnimationLoop.isDestroyed
  canvas,           \* frameRenderer.canvas is set
  isExporting,      \* GifExportManager.isExporting
  exp,              \* GifExportManager.generateGif: position and locals
  paused,           \* history: pause() was called and resume() not since
  animationId,      \* AnimationLoop.animationId (NoId = null)
  lastFrameTime,    \* AnimationLoop.lastFrameTime
  frameSkipCounter, \* AnimationLoop.frameSkipCounter
  frameSkipThreshold, \* AnimationLoop.frameSkipThreshold
  rafPending,       \* host: ids of the pending animation-frame callbacks
  now,              \* host: Date.now()
  capPc,            \* FrameCapture: position of capture3FramesAsImages
  frameIndex,       \* FrameCapture: loop variable frameIndex
  wasAnimating,     \* FrameCapture: local wasAnimating
  imagePaths,       \* FrameCapture: local imagePaths
  capResult,        \* FrameCapture: how the last capture ended
  ctx,              \* canvas context: fillStyle and globalAlpha (in tenths)
  framePool,        \* AnimationFrameManager.framePool: Map key -> frames
  issuedIds,        \* history: the ids direct calls of addPixel have returned
  capLog,           \* history: set-ups and snapshots of the current capture
  lastStop,         \* history: why the loop last stopped
  ev                \* history: what the last step did

vars == <<activePixels, pixelLayers, pixels, totalPixelCount, config,
          isDestroyed, canvas, isExporting, exp, paused,
          isRunning, animationId, lastFrameTime, frameSkipCounter,
          frameSkipThreshold, rafPending, now, capPc, frameIndex,
          wasAnimating, imagePaths, capResult, ctx, framePool, issuedIds,
          capLog, lastStop, ev>>

(***************************************************************************)
(* The state as one record, so that a method is an operator on states      *)
(***************************************************************************)
Cur ==
  [activePixels |-> activePixels, pixelLayers |-> pixelLayers,
   pixels |-> pixels, totalPixelCount |-> totalPixelCount,
   config |-> config,
   isDestroyed |-> isDestroyed, canvas |-> canvas,
   isExporting |-> isExporting, exp |-> exp, paused |-> paused,
   isRunning |-> isRunning, animationId |-> animationId,
   lastFrameTime |-> lastFrameTime, frameSkipCounter |-> frameSkipCounter,
   frameSkipThreshold |-> frameSkipThreshold, rafPending |-> rafPending,
   now |-> now, capPc |-> capPc, frameIndex |-> frameIndex,
   wasAnimating |-> wasAnimating, imagePaths |-> imagePaths,
   capResult |-> capResult, ctx |-> ctx, framePool |-> framePool,
   issuedIds |-> issuedIds,
   capLog |-> capLog, lastStop |-> lastStop, ev |-> ev]

Becomes(s) ==
  /\ activePixels' = s.activePixels
  /\ pixelLayers' = s.pixelLayers
  /\ pixels' = s.pixels
  /\ totalPixelCount' = s.totalPixelCount
  /\ config' = s.config
  /\ isDestroyed' = s.isDestroyed
  /\ canvas' = s.canvas
  /\ isExporting' = s.isExporting
  /\ exp' = s.exp
  /\ paused' = s.paused
  /\ isRunning' = s.isRunning
  /\ animationId' = s.animationId
  /\ lastFrameTime' = s.lastFrameTime
  /\ frameSkipCounter' = s.frameSkipCounter
  /\ frameSkipThreshold' = s.frameSkipThreshold
  /\ rafPending' = s.rafPending
  /\ now' = s.now
  /\ capPc' = s.capPc
  /\ frameIndex' = s.frameIndex
  /\ wasAnimating' = s.wasAnimating
  /\ imagePaths' = s.imagePaths
  /\ capResult' = s.capResult
  /\ ctx' = s.ctx
  /\ framePool' = s.framePool
  /\ issuedIds' = s.issuedIds
  /\ capLog' = s.capLog
  /\ lastStop' = s.lastStop
  /\ ev' = s.ev

\* the record of a step: the operation, whether the loop was running when it
\* began, what the loop did in it, the frame data a brush handed to the
\* store in it, the arguments of a direct call of the store, what the
\* store returned (the id from addPixel, the count from erasePixelsInArea),
\* the paints made on the canvas: which entity, with which fillStyle and
\* globalAlpha, how the call ended, and the shape handed to the frame manager
NewEv(op) ==
  [op |-> op, wasRunning |-> isRunning, adv |-> FALSE, ren |-> FALSE,
   exc |-> "none", raised |-> FALSE, evicted |-> 0, snap |-> "none",
   frames |-> <<>>, arg |-> <<>>, id |-> <<>>, count |-> -1,
   painted |-> <<>>, out |-> "none", shape |-> <<>>]

Begin(op) == [Cur EXCEPT !.ev = NewEv(op)]

(***************************************************************************)
(* JavaScript Map, as the sequence of its keys in insertion order          *)
(***************************************************************************)
Range(q) == {q[i] : i \in 1..Len(q)}

MapSet(q, k) == IF k \in Range(q) THEN q ELSE Append(q, k)

MapDelete(q, k) == SelectSeq(q, LAMBDA e : e /= k)

\* the objects still referenced by a map
Live(s) ==
  Range(s.activePixels) \cup UNION {Range(s.pixelLayers[l]) : l \in LayerKeys}

Collect(s) == [s EXCEPT !.pixels = [id \in Live(s) |-> s.pixels[id]]]

(***************************************************************************)
(* WigglePixel                                                             *)
(***************************************************************************)
updateFrequency(penType) == IF penType = "marker" THEN 2 ELSE 1

WigglePixel(x, y, color, frameLen, opacity, penType) ==
  [x |-> x, y |-> y, color |-> color, opacity |-> opacity,
   penType |-> penType, frameLen |-> frameLen,
   currentFrame |-> 0, frameUpdateCounter |-> 0]

update_StopsAtLastFrame(p) ==
  LET c == p.frameUpdateCounter + 1 IN
  IF c >= updateFrequency(p.penType)
    THEN [p EXCEPT !.currentFrame =
                      IF p.currentFrame + 1 < p.frameLen
                        THEN p.currentFrame + 1 ELSE p.currentFrame,
                   !.frameUpdateCounter = 0]
    ELSE [p EXCEPT !.frameUpdateCounter = c]

update_NoWrap(p) ==
  LET c == p.frameUpdateCounter + 1 IN
  IF c >= updateFrequency(p.penType)
    THEN [p EXCEPT !.currentFrame = p.currentFrame + 1,
                   !.frameUpdateCounter = 0]
    ELSE [p EXCEPT !.frameUpdateCounter = c]

update(p) ==
  LET c == p.frameUpdateCounter + 1 IN
  IF c >= updateFrequency(p.penType)
    THEN [p EXCEPT !.currentFrame = (p.currentFrame + 1) % p.frameLen,
                   !.frameUpdateCounter = 0]
    ELSE [p EXCEPT !.frameUpdateCounter = c]

(***************************************************************************)
(* pixelStore                                                              *)
(***************************************************************************)
removeOldestPixel_Newest(s) ==
  IF Len(s.activePixels) > 0
    THEN LET newestId == s.activePixels[Len(s.activePixels)]
             pixel == s.pixels[newestId]
         IN Collect([s EXCEPT
              !.activePixels = MapDelete(s.activePixels, newestId),
              !.pixelLayers = [l \in LayerKeys |->
                 IF l = pixel.penType
                   THEN MapDelete(s.pixelLayers[l], newestId)
                   ELSE s.pixelLayers[l]],
              !.ev.evicted = s.ev.evicted + 1])
    ELSE s

removeOldestPixel(s) ==
  IF Len(s.activePixels) > 0
    THEN LET oldestId == Head(s.activePixels)
             pixel == s.pixels[oldestId]
         IN Collect([s EXCEPT
              !.activePixels = MapDelete(s.activePixels, oldestId),
              !.pixelLayers = [l \in LayerKeys |->
                 IF l = pixel.penType
                   THEN MapDelete(s.pixelLayers[l], oldestId)
                   ELSE s.pixelLayers[l]],
              !.ev.evicted = s.ev.evicted + 1])
    ELSE s

addPixel_NoEviction(s, x, y, color, frameLen, opacity, penType) ==
  LET pixelId == <<s.totalPixelCount, s.now>> IN
  [s EXCEPT
     !.activePixels = MapSet(s.activePixels, pixelId),
     !.pixels = [id \in DOMAIN s.pixels \cup {pixelId} |->
                   IF id = pixelId
                     THEN WigglePixel(x, y, color, frameLen, opacity, penType)
                     ELSE s.pixels[id]],
     !.pixelLayers = [l \in LayerKeys |->
        IF l = penType THEN MapSet(s.pixelLayers[l], pixelId)
                       ELSE s.pixelLayers[l]],
     !.totalPixelCount = s.totalPixelCount + 1]

addPixel_FullFails(s, x, y, color, frameLen, opacity, penType) ==
  IF s.totalPixelCount >= s.config.maxTotalPixels
    THEN [s EXCEPT !.ev.exc = "escaped"]
    ELSE addPixel_NoEviction([s EXCEPT !.ev.id = <<s.totalPixelCount, s.now>>],
                             x, y, color, frameLen, opacity, penType)

addPixel(s, x, y, color, frameLen, opacity, penType) ==
  LET s1 == IF s.totalPixelCount >= s.config.maxTotalPixels
              THEN removeOldestPixel(s) ELSE s
      pixelId == <<s1.totalPixelCount, s1.now>>
  IN [s1 EXCEPT
        !.activePixels = MapSet(s1.activePixels, pixelId),
        !.pixels = [id \in DOMAIN s1.pixels \cup {pixelId} |->
                      IF id = pixelId
                        THEN WigglePixel(x, y, color, frameLen, opacity,
                                         penType)
                        ELSE s1.pixels[id]],
        !.pixelLayers = [l \in LayerKeys |->
           IF l = penType THEN MapSet(s1.pixelLayers[l], pixelId)
                          ELSE s1.pixelLayers[l]],
        !.totalPixelCount = s1.totalPixelCount + 1,
        !.ev.id = pixelId]

clearAllPixels(s) ==
  Collect([s EXCEPT !.activePixels = <<>>,
                    !.pixelLayers = [l \in LayerKeys |-> <<>>],
                    !.totalPixelCount = 0])

InArea_Square(p, centerX, centerY, radius) ==
  LET dx == p.x - centerX
      dy == p.y - centerY
  IN dx * dx <= radius * radius /\ dy * dy <= radius * radius

\* distance <= radius, compared on the squares
InArea(p, centerX, centerY, radius) ==
  LET dx == p.x - centerX
      dy == p.y - centerY
  IN dx * dx + dy * dy <= radius * radius

erasePixelsInArea_LayersOnly(s, centerX, centerY, radius) ==
  LET pixelsToRemove ==
        SelectSeq(s.activePixels,
                  LAMBDA id : InArea(s.pixels[id], centerX, centerY, radius))
      gone == Range(pixelsToRemove)
  IN Collect([s EXCEPT
       !.pixelLayers = [l \in LayerKeys |->
          SelectSeq(s.pixelLayers[l],
                    LAMBDA id : ~(id \in gone /\ s.pixels[id].penType = l))]])

erasePixelsInArea_CountsStore(s, centerX, centerY, radius) ==
  LET pixelsToRemove ==
        SelectSeq(s.activePixels,
                  LAMBDA id : InArea(s.pixels[id], centerX, centerY, radius))
      gone == Range(pixelsToRemove)
  IN Collect([s EXCEPT
       !.activePixels = SelectSeq(s.activePixels, LAMBDA id : id \notin gone),
       !.pixelLayers = [l \in LayerKeys |->
          SelectSeq(s.pixelLayers[l],
                    LAMBDA id : ~(id \in gone /\ s.pixels[id].penType = l))],
       !.ev.count = Len(s.activePixels)])

erasePixelsInArea(s, centerX, centerY, radius) ==
  LET pixelsToRemove ==
        SelectSeq(s.activePixels,
                  LAMBDA id : InArea(s.pixels[id], centerX, centerY, radius))
      gone == Range(pixelsToRemove)
  IN Collect([s EXCEPT
       !.activePixels = SelectSeq(s.activePixels, LAMBDA id : id \notin gone),
       !.pixelLayers = [l \in LayerKeys |->
          SelectSeq(s.pixelLayers[l],
                    LAMBDA id : ~(id \in gone /\ s.pixels[id].penType = l))],
       !.ev.count = Len(pixelsToRemove)])

updateActivePixels(s) ==
  [s EXCEPT !.pixels = [id \in DOMAIN s.pixels |->
     IF id \in Range(s.activePixels) THEN update(s.pixels[id])
                                     ELSE s.pixels[id]]]

(***************************************************************************)
(* Brushes: the frame data each brush hands to the store.  An offset is a  *)
(* pair <<dx, dy>> in tenths of a pixel block.                             *)
(***************************************************************************)
\* the shapes in pixelShapes.js
PLUS_PIXEL ==
  <<
     << <<0, 0>>, <<0, -10>>, <<0, 10>>, <<-10, 0>>,
        <<10, 0>>, <<10, 10>>, <<-10, 10>>, <<0, 20>> >>,
     << <<0, 10>>, <<0, 20>>, <<0, 30>>, <<0, 40>>,
        <<-10, 20>>, <<10, 20>>, <<-10, 30>>, <<10, 30>> >>,
     << <<0, 10>>, <<0, 20>>, <<0, 30>>, <<-10, 20>>,
        <<10, 20>> >>
  >>

DIAG_PIXEL ==
  <<
     << <<-10, 0>>, <<-10, 10>>, <<-10, 20>>, <<-20, 10>>,
        <<0, 10>>, <<0, 20>>, <<0, 30>>, <<10, 20>> >>,
     << <<0, 10>>, <<0, 20>>, <<0, 30>>, <<-10, 20>>,
        <<10, 20>>, <<10, 30>>, <<10, 40>>, <<20, 30>> >>,
     << <<0, 10>>, <<0, 20>>, <<0, 30>>, <<10, 20>>,
        <<-10, 20>>, <<-10, 30>>, <<-10, 40>>, <<-20, 30>> >>
  >>

REVERSE_DIAG_PIXEL ==
  <<
     << <<20, 10>>, <<10, 0>>, <<10, 10>>, <<10, 20>>,
        <<0, 10>>, <<0, 20>>, <<0, 30>>, <<-10, 20>> >>,
     << <<10, 20>>, <<0, 10>>, <<0, 20>>, <<0, 30>>,
        <<-10, 20>>, <<-10, 30>>, <<-10, 40>>, <<-20, 30>> >>,
     << <<20, 20>>, <<10, 10>>, <<10, 20>>, <<10, 30>>,
        <<0, 10>>, <<0, 20>>, <<0, 30>>, <<-10, 20>> >>
  >>

AVAILABLE_SHAPES == {PLUS_PIXEL, DIAG_PIXEL, REVERSE_DIAG_PIXEL}

\* the colour of each brush in DEFAULT_BRUSH_CONFIG
brushColor(brushType) ==
  IF brushType = "marker" THEN "#FFFF00"
  ELSE IF brushType = "spray" THEN "#666666"
  ELSE "#000000"

\* the opacity a brush gives its pixels, in tenths: 1.0 from the pencil and
\* the marker, 0.6 +- 0.15 at random from the spray brush
Opacities(brushType) == IF brushType = "spray" THEN {5, 7} ELSE {10}

\* the geometry a brush computes: no offset, one, or two
Shapes == {<<>>, << <<0, 0>> >>, << <<0, 0>>, <<10, 0>> >>}

shakeIntensity(brushType) ==
  IF brushType = "marker" THEN 10
  ELSE IF brushType = "spray" THEN 6
  ELSE 8

\* shape.map(([x, y]) => [x + dx, y + dy])
Shift(shape, dx, dy) ==
  [i \in 1..Len(shape) |-> <<shape[i][1] + dx, shape[i][2] + dy>>]

generate3FrameAnimation(shape, intensity) ==
  IF Len(shape) = 0
    THEN << <<>>, <<>>, <<>> >>
    ELSE << shape, Shift(shape, -intensity, -2), Shift(shape, intensity, 2) >>

generateOptimizedMarkerFrames(ellipsePixels) ==
  << ellipsePixels, Shift(ellipsePixels, -10, -2),
     Shift(ellipsePixels, 10, 2) >>

convertPatternToFrames_FiveStep(pattern) ==
  << pattern, Shift(pattern, -10, -10), Shift(pattern, 10, 10),
     Shift(pattern, 10, 0), pattern >>

convertPatternToFrames(pattern) ==
  << pattern, Shift(pattern, -5, 0), Shift(pattern, 5, 0) >>

\* a brush hands its frame data to the store
addFrames(s, x, y, frameData, opacity, brushType) ==
  addPixel([s EXCEPT !.ev.frames = frameData],
           x, y, brushColor(brushType), Len(frameData), opacity, brushType)

\* the pencil passes on the frame data it is given
PencilBrush_createPixel(s, x, y, frameData) ==
  addFrames(s, x, y, frameData, 10, "pencil")

MarkerBrush_createPixel(s, x, y, ellipsePixels) ==
  addFrames(s, x, y, generateOptimizedMarkerFrames(ellipsePixels), 10,
            "marker")

\* randomOpacity is the opacity getEffectiveOpacity draws
SprayBrush_createPixel(s, x, y, rotatedPattern, randomOpacity) ==
  addFrames(s, x, y, convertPatternToFrames(rotatedPattern), randomOpacity,
            "spray")

\* a brush that leaves createPixel to BaseBrush and only computes its shape
BaseBrush_createPixel(s, x, y, shape, brushType) ==
  addFrames(s, x, y,
            generate3FrameAnimation(shape, shakeIntensity(brushType)),
            10, brushType)

(***************************************************************************)
(* FrameRenderer and the drawing of one pixel                              *)
(***************************************************************************)
backgroundColor == "#FFFFFF"

\* the fillRect calls of one pixel, as one paint
paint(s, id) ==
  [s EXCEPT !.ev.painted =
     Append(@, [id |-> id, fillStyle |-> s.ctx.fillStyle,
                globalAlpha |-> s.ctx.globalAlpha])]

\* WigglePixel.draw(ctx)
draw(s, id) ==
  LET originalAlpha == s.ctx.globalAlpha
      s1 == [s EXCEPT !.ctx.globalAlpha = s.pixels[id].opacity,
                      !.ctx.fillStyle = s.pixels[id].color]
  IN [paint(s1, id) EXCEPT !.ctx.globalAlpha = originalAlpha]

drawPixelOptimized(s, id) ==
  LET originalAlpha == s.ctx.globalAlpha
      s1 == [s EXCEPT !.ctx.globalAlpha = s.pixels[id].opacity]
  IN [paint(s1, id) EXCEPT !.ctx.globalAlpha = originalAlpha]

\* FrameRenderer.clearCanvas, the background not transparent
clearSurface(s) == [s EXCEPT !.ctx.fillStyle = backgroundColor]

\* the keys of the Map groupPixelsByColor builds, in the order it sets them:
\* each colour where it first appears in pixelArray
colorKeys(s, pixelArray) ==
  LET color(i) == s.pixels[pixelArray[i]].color
      firsts == {i \in 1..Len(pixelArray) :
                   \A j \in 1..(i - 1) : color(j) /= color(i)}
      RECURSIVE keysFrom(_)
      keysFrom(i) ==
        IF i > Len(pixelArray) THEN <<>>
        ELSE IF i \in firsts THEN <<color(i)>> \o keysFrom(i + 1)
        ELSE keysFrom(i + 1)
  IN keysFrom(1)

\* the group of one colour: its pixels in the order of pixelArray
colorGroup(s, pixelArray, color) ==
  SelectSeq(pixelArray, LAMBDA id : s.pixels[id].color = color)

RECURSIVE drawGroup(_, _)
\* for (const pixel of pixels) this.drawPixelOptimized(pixel)
drawGroup(s, group) ==
  IF group = <<>> THEN s
  ELSE drawGroup(drawPixelOptimized(s, Head(group)), Tail(group))

RECURSIVE drawGroups(_, _, _)
\* for (const [color, pixels] of colorGroups)
drawGroups(s, pixelArray, keys) ==
  IF keys = <<>> THEN s
  ELSE drawGroups(
         drawGroup([s EXCEPT !.ctx.fillStyle = Head(keys)],
                   colorGroup(s, pixelArray, Head(keys))),
         pixelArray, Tail(keys))

renderLayer(s, layerType) ==
  LET pixelArray == s.pixelLayers[layerType] IN
  IF Len(pixelArray) = 0 THEN s
  ELSE drawGroups(s, pixelArray, colorKeys(s, pixelArray))

renderFrame_SprayFirst(s) ==
  renderLayer(renderLayer(renderLayer(clearSurface(s), "spray"), "marker"),
              "pencil")

renderFrame(s) ==
  renderLayer(renderLayer(renderLayer(clearSurface(s), "marker"), "spray"),
              "pencil")

(***************************************************************************)
(* Host: the animation-frame queue                                         *)
(***************************************************************************)
\* canvas.requestAnimationFrame hands out an id that no pending callback has
FreshId(s) ==
  CHOOSE i \in 1..(MaxPending + 1) :
    /\ i \notin s.rafPending
    /\ \A j \in 1..(i - 1) : j \in s.rafPending

RafRoom == Cardinality(rafPending) < MaxPending

(***************************************************************************)
(* AnimationLoop                                                           *)
(***************************************************************************)
\* the callback is cancelled through the canvas; with no canvas (and no
\* global cancelAnimationFrame on the platform) only animationId is cleared
clearAnimationFrame(s) ==
  IF s.animationId /= NoId
    THEN [s EXCEPT
            !.rafPending = IF s.canvas THEN @ \ {s.animationId} ELSE @,
            !.animationId = NoId]
    ELSE s

stop_KeepsRunning(s) ==
  IF ~s.isRunning THEN s ELSE clearAnimationFrame(s)

stop_RejectsStopped(s) ==
  IF ~s.isRunning THEN [s EXCEPT !.ev.exc = "escaped"]
  ELSE clearAnimationFrame([s EXCEPT !.isRunning = FALSE])

stop(s) ==
  IF ~s.isRunning THEN s
  ELSE clearAnimationFrame([s EXCEPT !.isRunning = FALSE])

\* stop(), with the reason noted in the history variable
stopAs(s, why) ==
  IF s.isRunning THEN [stop(s) EXCEPT !.lastStop = why] ELSE stop(s)

scheduleNextFrame_NoRequest(s) == s

scheduleNextFrame(s) ==
  IF ~s.isRunning \/ s.isDestroyed \/ ~s.canvas THEN s
  ELSE LET id == FreshId(s) IN
       [s EXCEPT !.animationId = id, !.rafPending = @ \cup {id}]

\* the dynamic adjustment of the frame-skip threshold
adjustThreshold(threshold, renderTime) ==
  IF renderTime = "slow"
    THEN IF threshold + 1 < MaxFrameSkipThreshold
           THEN threshold + 1 ELSE MaxFrameSkipThreshold
  ELSE IF renderTime = "fast" /\ threshold > 1
    THEN IF threshold - 1 > MinFrameSkipThreshold
           THEN threshold - 1 ELSE MinFrameSkipThreshold
  ELSE threshold

\* the catch block of animate
animateCatch_Rethrows(s) == [s EXCEPT !.ev.exc = "escaped"]

animateCatch(s) == [stopAs(s, "fault") EXCEPT !.ev.exc = "caught"]

\* the branch of animate taken when the frame interval has elapsed; fault is
\* the step that raises in this tick, renderTime the measured render duration
animateFrame(s, fault, renderTime) ==
  IF fault = "advance"
    THEN animateCatch([s EXCEPT !.ev.adv = TRUE, !.ev.raised = TRUE])
    ELSE
      LET s1 == [updateActivePixels(s) EXCEPT
                   !.ev.adv = TRUE,
                   !.frameSkipCounter = s.frameSkipCounter + 1]
          shouldRender == s1.frameSkipCounter >= s1.frameSkipThreshold
      IN IF shouldRender
           THEN IF fault = "render"
                  THEN animateCatch([s1 EXCEPT !.ev.ren = TRUE,
                                               !.ev.raised = TRUE])
                  ELSE scheduleNextFrame([renderFrame(s1) EXCEPT
                         !.ev.ren = TRUE,
                         !.frameSkipThreshold =
                            adjustThreshold(s1.frameSkipThreshold, renderTime),
                         !.frameSkipCounter = 0,
                         !.lastFrameTime = s1.now])
           ELSE scheduleNextFrame([s1 EXCEPT !.lastFrameTime = s1.now])

animate_NoEmptyCheck(s, fault, renderTime) ==
  IF ~s.isRunning THEN s
  ELSE IF s.now - s.lastFrameTime >= frameInterval
         THEN animateFrame(s, fault, renderTime)
         ELSE scheduleNextFrame(s)

animate_NoRunningCheck(s, fault, renderTime) ==
  LET timeSinceLastFrame == s.now - s.lastFrameTime
      activePixelCount == Len(s.activePixels)
  IN IF activePixelCount = 0
       THEN stopAs(s, "empty")
     ELSE IF timeSinceLastFrame >= frameInterval
       THEN animateFrame(s, fault, renderTime)
     ELSE scheduleNextFrame(s)

animate(s, fault, renderTime) ==
  IF ~s.isRunning \/ s.isDestroyed \/ ~s.canvas THEN s
  ELSE LET timeSinceLastFrame == s.now - s.lastFrameTime
           activePixelCount == Len(s.activePixels)
       IN IF activePixelCount = 0
            THEN stopAs(s, "empty")
          ELSE IF timeSinceLastFrame >= frameInterval
            THEN animateFrame(s, fault, renderTime)
          ELSE scheduleNextFrame(s)

start_NoAnimate(s) ==
  IF s.isRunning THEN s
  ELSE [s EXCEPT !.isRunning = TRUE, !.lastFrameTime = s.now]

start_IgnoresDestroyed(s) ==
  IF s.isRunning THEN s
  ELSE [s EXCEPT !.isRunning = TRUE, !.lastFrameTime = s.now]

\* animate() is entered with no time elapsed, so neither the advance nor the
\* render step is reached in it
start(s) ==
  IF s.isRunning \/ s.isDestroyed THEN s
  ELSE animate([s EXCEPT !.isRunning = TRUE, !.lastFrameTime = s.now],
               "none", "mid")

checkAndStartAnimation_StartOnly(s) ==
  IF Len(s.activePixels) > 0 /\ ~s.isRunning THEN start(s) ELSE s

checkAndStartAnimation(s) ==
  LET currentCount == Len(s.activePixels) IN
  IF s.isDestroyed THEN s
  ELSE IF currentCount > 0 /\ ~s.isRunning THEN start(s)
  ELSE IF currentCount = 0 /\ s.isRunning THEN stopAs(s, "empty")
  ELSE s

pause(s) == IF s.isRunning THEN clearAnimationFrame(s) ELSE s

resume(s) ==
  IF s.isRunning /\ ~s.isDestroyed /\ Len(s.activePixels) > 0
    THEN scheduleNextFrame([s EXCEPT !.lastFrameTime = s.now])
    ELSE s

\* AnimationLoop.destroy; the references it drops are read by no method
\* that passes the isRunning and isDestroyed tests afterwards
destroy(s) ==
  LET s1 == clearAnimationFrame([s EXCEPT !.isDestroyed = TRUE])
      s2 == stopAs(s1, "destroy")
  IN [clearAnimationFrame(s2) EXCEPT !.lastFrameTime = 0]

\* AnimationStore.destroy: the loop is destroyed, then the renderer loses
\* its canvas
AnimationStore_destroy(s) == [destroy(s) EXCEPT !.canvas = FALSE]

(***************************************************************************)
(* CanvasStore: the entry points of the input layer                        *)
(***************************************************************************)
\* placePixel with a paint brush selected: the brush adds one pixel and the
\* result (the pixel id) is never null
placePixel_NoRestart(s, x, y, color, frameLen, opacity, penType) ==
  addPixel(s, x, y, color, frameLen, opacity, penType)

placePixel(s, x, y, color, frameLen, opacity, penType) ==
  LET s1 == addPixel(s, x, y, color, frameLen, opacity, penType) IN
  IF ~s1.isRunning THEN start(s1) ELSE s1

\* placePixel with the eraser selected: the result is the number of pixels
\* removed, which is not null either
placeEraser(s, x, y, radius) ==
  LET s1 == erasePixelsInArea(s, x, y, radius) IN
  IF ~s1.isRunning THEN start(s1) ELSE s1

clearCanvas(s) == clearAllPixels(s)

(***************************************************************************)
(* FrameCapture.capture3FramesAsImages                                     *)
(* capPc: "idle" (not called), "wait" (in the 50 ms wait after a render),  *)
(* "snap" (wx.canvasToTempFilePath called, answer outstanding)             *)
(***************************************************************************)
NoResult == [status |-> "none", stills |-> <<>>, failedAt |-> -1]

\* pixel.currentFrame = frameIndex % (pixel.frameData?.length || 3)
frameFor(p, fi) ==
  fi % (IF p.frameLen = 0 THEN DefaultFrameCount ELSE p.frameLen)

setAllFrames(s, fi) ==
  [s EXCEPT !.pixels = [id \in DOMAIN s.pixels |->
     IF id \in Range(s.activePixels)
       THEN [s.pixels[id] EXCEPT !.currentFrame = frameFor(s.pixels[id], fi)]
       ELSE s.pixels[id]]]

\* one iteration of the for loop up to its first await: force the frame,
\* render, start the wait
captureSetup(s, fi) ==
  [renderFrame(setAllFrames(s, fi)) EXCEPT
     !.frameIndex = fi,
     !.capPc = "wait",
     !.capLog = Append(s.capLog, <<"setup", fi>>)]

\* the call, up to the first await
captureBegin(s) ==
  LET s0 == [s EXCEPT !.imagePaths = <<>>,
                      !.wasAnimating = s.isRunning,
                      !.capLog = <<>>,
                      !.capResult = NoResult]
      s1 == IF s0.wasAnimating THEN stopAs(s0, "capture") ELSE s0
  IN captureSetup(s1, 0)

\* the wait is over: canvasToTempFile asks the platform for the snapshot
captureExtract(s) ==
  [s EXCEPT !.capPc = "snap",
            !.capLog = Append(s.capLog, <<"snap", s.frameIndex>>)]

pushStill_Front(paths, still) == <<still>> \o paths

\* imagePaths.push(tempFilePath); the still is named by the frame it shows
pushStill(paths, still) == Append(paths, still)

captureFinally_NoRestart(s) == s

\* the finally block
captureFinally(s) == IF s.wasAnimating THEN start(s) ELSE s

captureSnapshotDone_SkipsFailure(s, outcome) ==
  LET s1 == IF outcome = "ok"
              THEN [s EXCEPT !.imagePaths = pushStill(s.imagePaths, s.frameIndex)]
              ELSE s
  IN IF s.frameIndex + 1 < CaptureFrames
       THEN captureSetup(s1, s.frameIndex + 1)
       ELSE [captureFinally(s1) EXCEPT
               !.capPc = "idle",
               !.capResult = [status |-> "ok", stills |-> s1.imagePaths,
                              failedAt |-> -1]]

\* the platform answers: the promise of canvasToTempFile resolves with the
\* path ("ok"), or rejects (no path, fail callback, 10 s timeout)
captureSnapshotDone(s, outcome) ==
  IF outcome = "ok"
    THEN LET s1 == [s EXCEPT
                      !.imagePaths = pushStill(s.imagePaths, s.frameIndex)]
         IN IF s.frameIndex + 1 < CaptureFrames
              THEN captureSetup(s1, s.frameIndex + 1)
              ELSE [captureFinally(s1) EXCEPT
                      !.capPc = "idle",
                      !.capResult = [status |-> "ok", stills |-> s1.imagePaths,
                                     failedAt |-> -1]]
    ELSE [captureFinally(s) EXCEPT
            !.capPc = "idle",
            !.capResult = [status |-> "error", stills |-> <<>>,
                           failedAt |-> s.frameIndex]]

canvasTimeout_NoReject(s) == s

\* the 10 s timer of canvasToTempFile fires with the platform silent: the
\* promise rejects
canvasTimeout(s) == captureSnapshotDone(s, "timeout")

(***************************************************************************)
(* GifExportManager, and FrameCapture.uploadImagesToCloud                  *)
(* exp.pc: "idle" (no generateGif in progress), "capture" (awaiting        *)
(* capture3FramesAsImages), "upload" (one upload attempt outstanding),     *)
(* "backoff" (in the wait before the next attempt), "cloud" (awaiting      *)
(* callGifCloudFunction), "download" (awaiting downloadGifToLocal)         *)
(***************************************************************************)
\* i: index of the image being uploaded; retry: the loop variable retry;
\* fileIds: the images whose id was pushed, in order; attempts: history, the
\* number of upload attempts made for each image of this export; result: how
\* the last export ended
NoExport ==
  [pc |-> "idle", i |-> 0, retry |-> 0, fileIds |-> <<>>,
   attempts |-> <<>>, result |-> "none"]

exportEnd_KeepsFlag(s, result) ==
  [s EXCEPT !.exp.pc = "idle", !.exp.result = result]

\* generateGif returns or throws and the finally block of exportGif runs
exportEnd(s, result) ==
  [s EXCEPT !.isExporting = FALSE, !.exp.pc = "idle", !.exp.result = result]

\* generateGif up to its first await; cloud: wx.cloud is there
generateGif(s, cloud) ==
  IF ~s.canvas \/ Len(s.activePixels) = 0 \/ ~cloud
    THEN exportEnd([s EXCEPT !.ev.exc = "failed"], "error")
    ELSE captureBegin([s EXCEPT !.exp = [NoExport EXCEPT
                                           !.pc = "capture",
                                           !.result = s.exp.result]])

exportGif_NoGuard(s, cloud) ==
  generateGif([s EXCEPT !.isExporting = TRUE], cloud)

exportGif(s, cloud) ==
  IF s.isExporting
    THEN [s EXCEPT !.ev.exc = "rejected"]
    ELSE generateGif([s EXCEPT !.isExporting = TRUE], cloud)

\* uploadImagesToCloud up to the first upload
uploadBegin(s) ==
  [s EXCEPT !.exp.pc = "upload", !.exp.i = 0, !.exp.retry = 0,
            !.exp.fileIds = <<>>,
            !.exp.attempts = [k \in 1..Len(s.capResult.stills) |-> 0]]

\* generateGif after the await of capture3FramesAsImages
exportAfterCapture(s) ==
  IF s.exp.pc = "capture" /\ s.capPc = "idle"
    THEN IF s.capResult.status = "ok" /\ Len(s.capResult.stills) > 0
           THEN uploadBegin(s)
           ELSE exportEnd(s, "error")
    ELSE s

\* one more attempt has been made for the image at index i
countAttempt(s) ==
  [s EXCEPT !.exp.attempts[s.exp.i + 1] = @ + 1]

uploadDone_RetriesForever(s, outcome) ==
  LET s1 == countAttempt(s) IN
  IF outcome = "ok"
    THEN IF s.exp.i + 1 < Len(s.capResult.stills)
           THEN [s1 EXCEPT !.exp.fileIds = Append(@, s.exp.i),
                           !.exp.i = s.exp.i + 1, !.exp.retry = 0]
           ELSE [s1 EXCEPT !.exp.fileIds = Append(@, s.exp.i),
                           !.exp.pc = "cloud"]
    ELSE [s1 EXCEPT !.exp.pc = "backoff"]

\* one pass of the retry loop ends: the image is uploaded (stat, uploadFile
\* and the fileID are all there), or a step of it failed or timed out
uploadDone(s, outcome) ==
  LET s1 == countAttempt(s) IN
  IF outcome = "ok"
    THEN IF s.exp.i + 1 < Len(s.capResult.stills)
           THEN [s1 EXCEPT !.exp.fileIds = Append(@, s.exp.i),
                           !.exp.i = s.exp.i + 1, !.exp.retry = 0]
           ELSE [s1 EXCEPT !.exp.fileIds = Append(@, s.exp.i),
                           !.exp.pc = "cloud"]
    ELSE IF s.exp.retry = maxRetries
           THEN exportEnd(s1, "error")
           ELSE [s1 EXCEPT !.exp.pc = "backoff"]

\* the wait of 1000 * (retry + 1) ms is over: the next pass begins
backoffDone(s) == [s EXCEPT !.exp.retry = @ + 1, !.exp.pc = "upload"]

\* callGifCloudFunction answers
cloudDone(s, outcome) ==
  IF outcome = "ok" THEN [s EXCEPT !.exp.pc = "download"]
  ELSE exportEnd(s, "error")

\* downloadGifToLocal answers; its failure is caught and the export succeeds
\* without a local path
downloadDone(s, outcome) == exportEnd(s, "success")

(***************************************************************************)
(* AnimationFrameManager (utils/animation.js): the frame pool.  Here an    *)
(* intensity is in thousandths and an offset in ten-thousandths, so that   *)
(* shakeIntensity * 0.3 is a whole number.  The Map framePool is the       *)
(* sequence of its entries in insertion order.  The counters and metrics   *)
(* of the manager are read by no method that returns frames and are left   *)
(* out.                                                                    *)
(***************************************************************************)
maxPoolSize == 5

\* the shapes handed to the manager: none, two shapes of two offsets that
\* begin with the same offset, and a shape of one offset
PoolShapes ==
  {<<>>,
   << <<0, 0>>, <<10000, 0>> >>,
   << <<0, 0>>, <<0, 10000>> >>,
   << <<10000, 0>> >>}

\* the intensities handed to the manager: 1.0, 1.004 and the default 2.0
PoolIntensities == {1000, 1004, 2000}

\* Number.toFixed(2) of an intensity: the nearest hundredth
toFixed2(intensity) == (intensity + 5) \div 10

generateCacheKey(baseShape, intensity) ==
  <<Len(baseShape),
    IF Len(baseShape) > 0 THEN baseShape[1][1] ELSE 0,
    IF Len(baseShape) > 0 THEN baseShape[1][2] ELSE 0,
    toFixed2(intensity)>>

optimizedShake(intensity, direction) == intensity * direction

\* the intensity in ten-thousandths is intensity * 10, and
\* intensity * 0.3 is intensity * 3
createNewFrameData(baseShape, intensity) ==
  IF Len(baseShape) = 0 THEN << <<>>, <<>>, <<>> >>
  ELSE << baseShape,
          [i \in 1..Len(baseShape) |->
             <<baseShape[i][1] + optimizedShake(intensity * 10, -1),
               baseShape[i][2] + optimizedShake(intensity * 3, -1)>>],
          [i \in 1..Len(baseShape) |->
             <<baseShape[i][1] + optimizedShake(intensity * 10, 1),
               baseShape[i][2] + optimizedShake(intensity * 3, 1)>>] >>

deepCloneFrames(frames) ==
  [f \in 1..Len(frames) |->
     [p \in 1..Len(frames[f]) |-> <<frames[f][p][1], frames[f][p][2]>>]]

\* framePool.has(cacheKey) and framePool.get(cacheKey)
poolHas(pool, cacheKey) == \E i \in 1..Len(pool) : pool[i].key = cacheKey

poolGet(pool, cacheKey) ==
  pool[CHOOSE i \in 1..Len(pool) : pool[i].key = cacheKey].frames

cleanupOldestPoolEntry(pool) == IF Len(pool) > 0 THEN Tail(pool) ELSE pool

\* ev.out notes whether the pool served the call, ev.frames what it returned
AnimationFrameManager_generate3FrameAnimation(s, baseShape, intensity) ==
  LET cacheKey == generateCacheKey(baseShape, intensity) IN
  IF poolHas(s.framePool, cacheKey)
  THEN [s EXCEPT
          !.ev.frames = deepCloneFrames(poolGet(s.framePool, cacheKey)),
          !.ev.out = "hit"]
  ELSE LET frames == createNewFrameData(baseShape, intensity)
           pool == IF Len(s.framePool) < maxPoolSize THEN s.framePool
                   ELSE cleanupOldestPoolEntry(s.framePool)
       IN [s EXCEPT
             !.framePool = Append(pool, [key |-> cacheKey,
                                         frames |-> deepCloneFrames(frames)]),
             !.ev.frames = frames,
             !.ev.out = "miss"]

\* the timer of the manager: above 80% of maxPoolSize the oldest fifth of
\* the entries goes
performGarbageCollection(s) ==
  IF Len(s.framePool) * 10 > maxPoolSize * 8
  THEN LET maxDelete == (Len(s.framePool) * 2) \div 10
       IN [s EXCEPT !.framePool = SubSeq(s.framePool, maxDelete + 1,
                                         Len(s.framePool))]
  ELSE s

clearAllCache(s) == [s EXCEPT !.framePool = <<>>]

(***************************************************************************)
(* Initial state: stores constructed, canvas initialised, nothing drawn    *)
(***************************************************************************)
\* the state after the constructors, the cap of the store scaled to cap
Constructed(cap) ==
  /\ activePixels = <<>>
  /\ pixelLayers = [l \in LayerKeys |-> <<>>]
  /\ pixels = [id \in {} |-> 0]
  /\ totalPixelCount = 0
  /\ config = [maxTotalPixels |-> cap]
  /\ isDestroyed = FALSE
  /\ canvas = TRUE
  /\ isExporting = FALSE
  /\ exp = NoExport
  /\ paused = FALSE
  /\ isRunning = FALSE
  /\ animationId = NoId
  /\ lastFrameTime = 0
  /\ frameSkipCounter = 0
  /\ frameSkipThreshold = InitialFrameSkipThreshold
  /\ rafPending = {}
  /\ now = 0
  /\ capPc = "idle"
  /\ frameIndex = 0
  /\ wasAnimating = FALSE
  /\ imagePaths = <<>>
  /\ capResult = NoResult
  /\ ctx = [fillStyle |-> "#000000", globalAlpha |-> 10]
  /\ framePool = <<>>
  /\ issuedIds = {}
  /\ capLog = <<>>
  /\ lastStop = "none"
  /\ ev = [op |-> "Init", wasRunning |-> FALSE, adv |-> FALSE, ren |-> FALSE,
           exc |-> "none", raised |-> FALSE, evicted |-> 0, snap |-> "none",
           frames |-> <<>>, arg |-> <<>>, id |-> <<>>, count |-> -1,
           painted |-> <<>>, out |-> "none", shape |-> <<>>]

Init == Constructed(maxTotalPixels)

InitRender == Constructed(maxRenderPixels)

(***************************************************************************)
(* Actions.  An action that takes input is given the sets its inputs are   *)
(* drawn from, so that each specification can enumerate the inputs its     *)
(* claims are about.                                                       *)
(***************************************************************************)
StoreSize == Len(activePixels)

\* the user draws with a paint brush
PlacePixel(XS, YS, PENS) ==
  /\ totalPixelCount < MaxCreated
  /\ RafRoom
  /\ \E x \in XS, y \in YS, frameLen \in FrameLens, penType \in PENS :
       \E opacity \in Opacities(penType) :
         Becomes(placePixel(Begin("PlacePixel"), x, y, brushColor(penType),
                            frameLen, opacity, penType))

\* the user draws with the eraser
PlaceEraser(XS, YS, RS) ==
  /\ RafRoom
  /\ \E x \in XS, y \in YS, radius \in RS :
       Becomes(placeEraser(Begin("PlaceEraser"), x, y, radius))

\* the user clears the canvas
ClearCanvas == Becomes(clearCanvas(Begin("ClearCanvas")))

\* the host runs a pending animation-frame callback: it clears animationId
\* and calls animate()
Tick(FAULTS, TIMES) ==
  \E id \in rafPending, fault \in FAULTS, renderTime \in TIMES :
    Becomes(animate([Begin("Tick") EXCEPT !.rafPending = @ \ {id},
                                          !.animationId = NoId],
                    fault, renderTime))

\* time passes
Clock ==
  /\ now + ClockStep <= MaxTime
  /\ Becomes([Begin("Clock") EXCEPT !.now = now + ClockStep])

CheckAndStart ==
  /\ RafRoom
  /\ Becomes(checkAndStartAnimation(Begin("CheckAndStart")))

Start ==
  /\ RafRoom
  /\ Becomes(start(Begin("Start")))

Stop == Becomes(stopAs(Begin("Stop"), "explicit"))

Pause == Becomes([pause(Begin("Pause")) EXCEPT !.paused = TRUE])

Resume ==
  /\ RafRoom
  /\ Becomes([resume(Begin("Resume")) EXCEPT !.paused = FALSE])

Destroy == Becomes(destroy(Begin("Destroy")))

DestroyStore == Becomes(AnimationStore_destroy(Begin("DestroyStore")))

CaptureStart ==
  /\ capPc = "idle"
  /\ Becomes(captureBegin(Begin("CaptureStart")))

CaptureExtract ==
  /\ capPc = "wait"
  /\ Becomes(captureExtract(Begin("CaptureExtract")))

SnapshotDone ==
  /\ capPc = "snap"
  /\ RafRoom
  /\ \E outcome \in SnapOutcomes :
       Becomes(exportAfterCapture(
                 captureSnapshotDone([Begin("SnapshotDone") EXCEPT
                                        !.ev.snap = outcome], outcome)))

\* the platform answers the snapshot call through success or fail
SnapshotAnswer ==
  /\ capPc = "snap"
  /\ RafRoom
  /\ \E outcome \in SnapOutcomes \ {"timeout"} :
       Becomes(exportAfterCapture(
                 captureSnapshotDone([Begin("SnapshotDone") EXCEPT
                                        !.ev.snap = outcome], outcome)))

\* the platform has not answered and the timer of canvasToTempFile fires
SnapshotTimeout ==
  /\ capPc = "snap"
  /\ RafRoom
  /\ Becomes(exportAfterCapture(
               canvasTimeout([Begin("SnapshotDone") EXCEPT
                                !.ev.snap = "timeout"])))

\* the page calls gifExportManager.exportGif; no capture that was called
\* directly is under way
ExportGif ==
  /\ capPc = "idle" \/ isExporting
  /\ \E cloud \in BOOLEAN :
       Becomes(exportGif([Begin("ExportGif") EXCEPT
                            !.ev.out = IF cloud THEN "cloud" ELSE "nocloud"],
                         cloud))

\* the platform answers the steps of one upload attempt
UploadDone ==
  /\ exp.pc = "upload"
  /\ \E outcome \in {"ok", "fail"} :
       Becomes(uploadDone([Begin("UploadDone") EXCEPT !.ev.out = outcome],
                          outcome))

BackoffDone ==
  /\ exp.pc = "backoff"
  /\ Becomes(backoffDone(Begin("BackoffDone")))

CloudDone ==
  /\ exp.pc = "cloud"
  /\ \E outcome \in {"ok", "fail"} :
       Becomes(cloudDone([Begin("CloudDone") EXCEPT !.ev.out = outcome],
                         outcome))

DownloadDone ==
  /\ exp.pc = "download"
  /\ \E outcome \in {"ok", "fail"} :
       Becomes(downloadDone([Begin("DownloadDone") EXCEPT
                               !.ev.out = outcome], outcome))

\* the store's own operations, called directly; the ids addPixel returns
\* are noted in issuedIds
AddPixel(XS, YS, PENS, COLORS, OPACITIES) ==
  /\ totalPixelCount < MaxCreated
  /\ \E x \in XS, y \in YS, frameLen \in FrameLens, penType \in PENS,
        color \in COLORS, opacity \in OPACITIES :
       LET s1 == addPixel([Begin("AddPixel") EXCEPT !.ev.arg = <<x, y>>],
                          x, y, color, frameLen, opacity, penType)
       IN Becomes([s1 EXCEPT !.issuedIds = @ \cup {s1.ev.id}])

EraseArea(XS, YS, RS) ==
  \E x \in XS, y \in YS, radius \in RS :
    Becomes(erasePixelsInArea([Begin("EraseArea") EXCEPT
                                 !.ev.arg = <<x, y, radius>>],
                              x, y, radius))

ClearAll == Becomes(clearAllPixels(Begin("ClearAll")))

UpdateAll == Becomes(updateActivePixels(Begin("UpdateAll")))

\* frameRenderer.renderFrame(pixelStore), called with the loop at rest
RenderFrame ==
  Becomes([renderFrame(Begin("RenderFrame")) EXCEPT !.ev.ren = TRUE])

\* pixel.draw(ctx) on one entity of the store, as the exporters call it
Draw ==
  \E id \in Range(activePixels) : Becomes(draw(Begin("Draw"), id))

\* this.drawPixelOptimized(pixel) on one entity of the store
DrawOptimized ==
  \E id \in Range(activePixels) :
    Becomes(drawPixelOptimized(Begin("DrawOptimized"), id))

\* the brushes, called as penStore.draw calls them
DrawPencil ==
  /\ totalPixelCount < MaxCreated
  /\ \E x \in Xs, frameData \in AVAILABLE_SHAPES :
       Becomes(PencilBrush_createPixel(Begin("DrawPencil"), x, 0, frameData))

DrawMarker ==
  /\ totalPixelCount < MaxCreated
  /\ \E x \in Xs, ellipsePixels \in Shapes :
       Becomes(MarkerBrush_createPixel(Begin("DrawMarker"), x, 0,
                                       ellipsePixels))

DrawSpray ==
  /\ totalPixelCount < MaxCreated
  /\ \E x \in Xs, rotatedPattern \in Shapes,
        randomOpacity \in Opacities("spray") :
       Becomes(SprayBrush_createPixel(Begin("DrawSpray"), x, 0,
                                      rotatedPattern, randomOpacity))

\* ev.arg notes the shake intensity of the brush
DrawShape ==
  /\ totalPixelCount < MaxCreated
  /\ \E x \in Xs, shape \in Shapes, brushType \in {"pencil", "spray"} :
       Becomes(BaseBrush_createPixel(
                 [Begin("DrawShape") EXCEPT
                    !.ev.arg = <<shakeIntensity(brushType)>>],
                 x, 0, shape, brushType))

(***************************************************************************)
(* Specifications                                                          *)
(***************************************************************************)
\* the drawing session with a capture: input, loop, clock, capture
Next ==
  \/ PlacePixel({0}, {0}, {"pencil"})
  \/ PlaceEraser({0}, {0}, {0})
  \/ ClearCanvas
  \/ Tick({"none"}, {"mid"})
  \/ Clock
  \/ Stop
  \/ CaptureStart
  \/ CaptureExtract
  \/ SnapshotDone

Spec == Init /\ [][Next]_vars

\* the animation loop and its whole interface, no capture
NextLoop ==
  \/ PlacePixel({0}, {0}, {"marker", "pencil"})
  \/ PlaceEraser({0}, {0}, {0})
  \/ ClearCanvas
  \/ Tick(Faults, RenderTimes)
  \/ Clock
  \/ CheckAndStart
  \/ Start
  \/ Stop
  \/ Pause
  \/ Resume

SpecLoop == Init /\ [][NextLoop]_vars

\* the store alone
NextStore ==
  \/ AddPixel(Xs, Ys, LayerKeys, {"#000000"}, {10})
  \/ EraseArea(Xs, Ys, Radii)
  \/ ClearAll
  \/ UpdateAll

SpecStore == Init /\ [][NextStore]_vars

\* the brushes drawing into the store
NextBrush ==
  \/ DrawPencil
  \/ DrawMarker
  \/ DrawSpray
  \/ DrawShape
  \/ ClearAll

SpecBrush == Init /\ [][NextBrush]_vars

\* a capture while the user draws and the loop runs.  The platform may
\* leave a snapshot call unanswered for ever; the timers of the host fire:
\* the 50 ms wait of the capture ends and the 10 s timer of canvasToTempFile
\* fires when no answer came before it.
NextCapture ==
  \/ PlacePixel({0}, {0}, {"pencil"})
  \/ Tick({"none"}, {"mid"})
  \/ Clock
  \/ CaptureStart
  \/ CaptureExtract
  \/ SnapshotAnswer
  \/ SnapshotTimeout

SpecCapture ==
  /\ Init
  /\ [][NextCapture]_vars
  /\ WF_vars(CaptureExtract)
  /\ WF_vars(SnapshotTimeout)

\* the frame manager is asked for the frames of a shape; ev.shape and
\* ev.arg note the shape and the intensity of the call
GenerateFrames ==
  \E baseShape \in PoolShapes, intensity \in PoolIntensities :
    Becomes(AnimationFrameManager_generate3FrameAnimation(
              [Begin("GenerateFrames") EXCEPT
                 !.ev.shape = baseShape, !.ev.arg = <<intensity>>],
              baseShape, intensity))

PerformGarbageCollection ==
  Becomes(performGarbageCollection(Begin("PerformGarbageCollection")))

ClearAllCache == Becomes(clearAllCache(Begin("ClearAllCache")))

\* the frame manager on its own: calls, its timer and the clearing of it
NextPool ==
  \/ GenerateFrames
  \/ PerformGarbageCollection
  \/ ClearAllCache

SpecPool == Init /\ [][NextPool]_vars

\* the export of a GIF while the user draws and clears
NextExport ==
  \/ PlacePixel({0}, {0}, {"pencil"})
  \/ ClearCanvas
  \/ Tick({"none"}, {"mid"})
  \/ ExportGif
  \/ CaptureExtract
  \/ SnapshotDone
  \/ UploadDone
  \/ BackoffDone
  \/ CloudDone
  \/ DownloadDone

SpecExport == Init /\ [][NextExport]_vars

\* the life of the loop: its whole interface with destroy, no faults
NextLife ==
  \/ PlacePixel({0}, {0}, {"pencil"})
  \/ ClearCanvas
  \/ Tick({"none"}, {"mid"})
  \/ Clock
  \/ CheckAndStart
  \/ Start
  \/ Stop
  \/ Pause
  \/ Resume
  \/ Destroy
  \/ DestroyStore

SpecLife == Init /\ [][NextLife]_vars

\* the store and the renderer: entities of two colours, half opaque
NextRender ==
  \/ AddPixel({0}, {0}, LayerKeys, Colors, {5})
  \/ ClearAll
  \/ RenderFrame
  \/ Draw
  \/ DrawOptimized

SpecRender == InitRender /\ [][NextRender]_vars

(***************************************************************************)
(* Properties                                                              *)
(***************************************************************************)
\* C1: after every add, erase and clear the number of entities in
\* activePixels is at most the capacity cap.
C1_CapacityNeverExceeded == StoreSize <= maxTotalPixels

\* an add that had to evict and left the store at its cap
C1_Witness ==
  ev.op = "AddPixel" /\ ev.evicted = 1 /\ StoreSize = maxTotalPixels

CaptureInProgress == capPc \in {"wait", "snap"}

\* C2: while a frame capture is in progress no tick of the animation loop
\* executes updateActivePixels.
C2_NoAdvanceDuringCapture ==
  (CaptureInProgress /\ ev.op = "Tick") => ~ev.adv

\* C3: while the store is empty (as after clear) no step advances or renders
\* through the loop, and a tick leaves the loop stopped.
C3_AutoStopWhenEmpty ==
  [][(StoreSize = 0) =>
       /\ ~ev'.adv
       /\ ~ev'.ren
       /\ (ev'.op = "Tick" => ~isRunning')]_vars

\* a tick found the running loop with a cleared store and stopped it
C3_Witness ==
  /\ ev.op = "Tick" /\ ev.wasRunning /\ ~isRunning
  /\ lastStop = "empty" /\ totalPixelCount = 0 /\ StoreSize = 0

CaptureFinished == ev.op = "SnapshotDone" /\ capPc = "idle"

\* C5 as claimed: when a capture finishes the loop is running iff it was
\* running when the capture started.
C5_LoopStateRestored == CaptureFinished => (isRunning = wasAnimating)

\* C5 as amended: when a capture finishes, by return or by failure: if the
\* loop was running when the capture started, it is running whenever the
\* store is non-empty; if it was not, the running flag is left as the
\* finishing step found it.
C5_LoopStateRestoredAmended ==
  CaptureFinished =>
    /\ (wasAnimating /\ StoreSize > 0) => isRunning
    /\ ~wasAnimating => (isRunning = ev.wasRunning)

\* a failed capture restarted the loop it had stopped
C5_Witness ==
  /\ CaptureFinished /\ capResult.status = "error"
  /\ wasAnimating /\ ~ev.wasRunning /\ isRunning

\* C6: a failed snapshot ends the capture at once: the error is raised, no
\* still is returned, and the failed snapshot is the last thing the capture
\* did.
C6_FailureAborts ==
  /\ (ev.op = "SnapshotDone" /\ ev.snap /= "ok")
       => (capPc = "idle" /\ capResult.status = "error")
  /\ (capResult.status = "error")
       => /\ capResult.stills = <<>>
          /\ capPc = "idle"
          /\ capLog /= <<>>
          /\ capLog[Len(capLog)] = <<"snap", capResult.failedAt>>

\* the second frame failed after the first still had been taken
C6_Witness ==
  /\ capResult.status = "error" /\ capResult.failedAt = 1
  /\ Len(imagePaths) = 1 /\ ev.snap = "timeout"

\* C7: when the still for frameIndex is extracted, every entity in the store
\* shows frame frameIndex mod 3.
C7_AllEntitiesOnCapturedFrame ==
  (ev.op = "CaptureExtract") =>
     \A id \in Range(activePixels) :
        pixels[id].currentFrame = frameIndex % CaptureFrames

CaptureOrder ==
  << <<"setup", 0>>, <<"snap", 0>>, <<"setup", 1>>, <<"snap", 1>>,
     <<"setup", 2>>, <<"snap", 2>> >>

\* C8: a capture sets up and snapshots the frames in the order 0, 1, 2, each
\* snapshot before the next set-up, and the stills are kept and returned in
\* that order.
C8_FramesInOrder ==
  /\ Len(capLog) <= Len(CaptureOrder)
  /\ capLog = SubSeq(CaptureOrder, 1, Len(capLog))
  /\ CaptureInProgress => imagePaths = [k \in 1..frameIndex |-> k - 1]
  /\ (capResult.status = "ok") => capResult.stills = <<0, 1, 2>>

\* a capture returned its three stills
C8_Witness ==
  /\ CaptureFinished /\ capResult.status = "ok"
  /\ Len(capResult.stills) = CaptureFrames /\ Len(capLog) = 6

\* C9: an exception raised in the advance or render step of a tick is caught
\* inside animate and leaves the loop stopped.
C9_FaultStopsLoop ==
  ev.raised => (ev.op = "Tick" /\ ev.exc = "caught" /\ ~isRunning)

\* the render step of a tick raised
C9_Witness ==
  /\ ev.op = "Tick" /\ ev.raised /\ ev.ren /\ ev.wasRunning /\ ~isRunning
  /\ StoreSize > 0

\* C10: when a fault has stopped the loop, the next pixel drawn restarts it:
\* the loop is running and its next tick is scheduled.
C10_AddRestartsAfterFault ==
  [][(lastStop = "fault" /\ ~isRunning /\ ev'.op = "PlacePixel") =>
       /\ isRunning'
       /\ animationId' /= NoId
       /\ animationId' \in rafPending']_vars

\* a pixel was drawn on a loop that a fault had stopped
C10_Witness ==
  /\ ev.op = "PlacePixel" /\ ~ev.wasRunning /\ lastStop = "fault"
  /\ isRunning /\ animationId \in rafPending

\* C11 as claimed: an add evicts only when activePixels holds at least the
\* cap at the time of the call, and then exactly one entity; when it holds
\* fewer, the add removes none.
C11_EvictsOnlyAtCapacity ==
  [][(ev'.op = "AddPixel") =>
       ev'.evicted = (IF StoreSize >= maxTotalPixels THEN 1 ELSE 0)]_vars

\* C12: the entity an add evicts is the oldest one in the store, whatever
\* its layer: the one created first of those present.  Every other entity
\* stays, and the new one is added.  So after cap + 1 adds with no erase
\* exactly the first entity is gone.
C12_EvictsOldest ==
  [][(ev'.op = "AddPixel" /\ ev'.evicted > 0) =>
       \E gone \in Range(activePixels) :
         /\ \A id \in Range(activePixels) : id[1] >= gone[1]
         /\ Range(activePixels') =
              (Range(activePixels) \ {gone}) \cup {<<totalPixelCount, now>>}
         /\ \A l \in LayerKeys : gone \notin Range(pixelLayers'[l])]_vars

\* cap + 1 entities were added in a row, to different layers: the first is
\* gone and the others are present
C12_Witness ==
  /\ ev.op = "AddPixel" /\ ev.evicted = 1
  /\ totalPixelCount = maxTotalPixels + 1
  /\ {id[1] : id \in Range(activePixels)} = 1..maxTotalPixels
  /\ Cardinality({pixels[id].penType : id \in Range(activePixels)}) > 1

LayersOf(id) == {l \in LayerKeys : id \in Range(pixelLayers[l])}

\* C13: every entity in activePixels is in exactly one layer map, the one
\* of its pen type, and in it once.
C13_ExactlyOneLayer ==
  \A id \in Range(activePixels) :
    /\ LayersOf(id) = {pixels[id].penType}
    /\ \A l \in LayerKeys :
         Cardinality({i \in 1..Len(pixelLayers[l]) : pixelLayers[l][i] = id})
           <= 1

\* after an eviction, an erase removed one of the two entities and left a
\* spray entity, in the spray layer alone
C13_Witness ==
  /\ ev.op = "EraseArea" /\ StoreSize = 1 /\ totalPixelCount = 3
  /\ pixels[activePixels[1]].penType = "spray"
  /\ pixelLayers["spray"] = activePixels
  /\ pixelLayers["marker"] = <<>> /\ pixelLayers["pencil"] = <<>>

\* what the store and the loop hold, without the history variables
ProgramState ==
  <<activePixels, pixelLayers, pixels, totalPixelCount, isRunning,
    animationId, lastFrameTime, frameSkipCounter, frameSkipThreshold,
    rafPending, now>>

\* C14: stop() on a loop that is not running, as in a second stop() in a
\* row, changes nothing and raises nothing.
C14_StopIdempotent ==
  [][(~isRunning /\ ev'.op = "Stop") =>
       /\ ProgramState' = ProgramState
       /\ lastStop' = lastStop
       /\ ev'.exc = "none" /\ ~ev'.raised]_vars

\* stop() was called on a loop an explicit stop had already stopped, with
\* entities in the store and a frame counted
C14_Witness ==
  /\ ev.op = "Stop" /\ ~ev.wasRunning /\ ~isRunning
  /\ lastStop = "explicit" /\ StoreSize > 0 /\ frameSkipCounter > 0

\* C15: stop() leaves the loop stopped with its pending callback cancelled,
\* and a callback that still fires on the stopped loop neither advances nor
\* renders nor schedules.
C15_StopCancelsScheduling ==
  [][((ev'.op = "Stop") =>
        /\ ~isRunning'
        /\ animationId' = NoId
        /\ rafPending' = rafPending \ {animationId})
     /\
     ((~isRunning /\ ev'.op = "Tick") =>
        /\ ~ev'.adv /\ ~ev'.ren
        /\ ~isRunning'
        /\ rafPending' \subseteq rafPending)]_vars

\* a callback that stop() could not cancel fired on the stopped loop, with
\* entities in the store and the frame interval elapsed
C15_Witness ==
  /\ ev.op = "Tick" /\ ~ev.wasRunning /\ ~isRunning
  /\ lastStop = "explicit" /\ StoreSize > 0
  /\ now - lastFrameTime >= frameInterval

\* C16: start() or resume() on a stopped loop with an empty store leaves
\* the loop stopped, schedules no tick and touches no entity.
C16_StartOnEmptyIsNoOp ==
  [][(~isRunning /\ StoreSize = 0 /\ ev'.op \in {"Start", "Resume"}) =>
       /\ ~isRunning'
       /\ animationId' = animationId
       /\ rafPending' = rafPending
       /\ ~ev'.adv /\ ~ev'.ren
       /\ <<activePixels, pixelLayers, pixels, totalPixelCount>>' =
            <<activePixels, pixelLayers, pixels, totalPixelCount>>]_vars

\* start() was called on a stopped loop with a cleared store
C16_Witness ==
  /\ ev.op = "Start" /\ ~ev.wasRunning /\ ~isRunning
  /\ StoreSize = 0 /\ rafPending = {} /\ lastStop = "empty"

C18_AdvanceThenComposite ==
  (ev.op = "Tick" /\ ev.adv /\ ~ev.raised) => ev.ren

RECURSIVE updateTimes(_, _)
\* update() called n times on one entity
updateTimes(p, n) == IF n = 0 THEN p ELSE updateTimes(update(p), n - 1)

C20_ThreeFrames ==
  /\ \A id \in Range(activePixels) : pixels[id].frameLen = 3
  /\ (ev.op \in {"DrawPencil", "DrawMarker", "DrawSpray", "DrawShape"})
       => Len(ev.frames) = 3

\* a brush computed the empty shape and its entity joined one of another
\* brush in the store
C20_Witness ==
  /\ ev.op = "DrawShape" /\ ev.frames = << <<>>, <<>>, <<>> >>
  /\ StoreSize = 2
  /\ pixels[activePixels[1]].penType = "marker"
  /\ pixels[activePixels[2]].penType = "spray"

\* C21: after any sequence of frame advances and captures every entity's
\* currentFrame is one of 0, 1, 2.
C21_FrameIndexInRange ==
  \A id \in Range(activePixels) : pixels[id].currentFrame \in 0..2

\* a capture left the entities on the last frame and the next tick of the
\* restarted loop advanced them round to the first
C21_Witness ==
  /\ ev.op = "Tick" /\ ev.adv /\ capResult.status = "ok"
  /\ StoreSize > 0
  /\ \A id \in Range(activePixels) : pixels[id].currentFrame = 0

\* the entities at Euclidean distance at most r from (cx, cy)
Within(cx, cy, r) ==
  {id \in Range(activePixels) :
     (pixels[id].x - cx) * (pixels[id].x - cx)
       + (pixels[id].y - cy) * (pixels[id].y - cy) <= r * r}

\* C22: erasePixelsInArea(cx, cy, r) removes from activePixels and from the
\* layers exactly the entities at distance at most r from (cx, cy), and
\* leaves every other entity, its place in the order and its state, as it
\* was.
C22_EraseLocality ==
  [][(ev'.op = "EraseArea") =>
       LET gone == Within(ev'.arg[1], ev'.arg[2], ev'.arg[3]) IN
       /\ activePixels' =
            SelectSeq(activePixels, LAMBDA id : id \notin gone)
       /\ \A l \in LayerKeys :
            pixelLayers'[l] =
              SelectSeq(pixelLayers[l], LAMBDA id : id \notin gone)
       /\ \A id \in Range(activePixels) \ gone : pixels'[id] = pixels[id]
       /\ totalPixelCount' = totalPixelCount]_vars

\* an erase of radius 1 removed one entity and left its diagonal neighbour
C22_Witness ==
  /\ ev.op = "EraseArea" /\ ev.arg[3] = 1 /\ ev.count = 1
  /\ StoreSize = 1
  /\ (pixels[activePixels[1]].x - ev.arg[1])
       * (pixels[activePixels[1]].x - ev.arg[1]) = 1
  /\ (pixels[activePixels[1]].y - ev.arg[2])
       * (pixels[activePixels[1]].y - ev.arg[2]) = 1

\* C23: erasePixelsInArea returns the number of entities it removed; with
\* no entity within the radius it returns 0, raises nothing and leaves the
\* store as it was.
C23_EraseReturnsCount ==
  [][(ev'.op = "EraseArea") =>
       /\ ev'.count = Len(activePixels) - Len(activePixels')
       /\ ev'.count = Cardinality(Within(ev'.arg[1], ev'.arg[2], ev'.arg[3]))
       /\ ev'.exc = "none"
       /\ (Within(ev'.arg[1], ev'.arg[2], ev'.arg[3]) = {}) =>
            /\ ev'.count = 0
            /\ <<activePixels, pixelLayers, pixels, totalPixelCount>>' =
                 <<activePixels, pixelLayers, pixels, totalPixelCount>>]_vars

\* an erase of radius 0 at a point with no entity, the store not empty
C23_Witness ==
  /\ ev.op = "EraseArea" /\ ev.arg[3] = 0 /\ ev.count = 0
  /\ StoreSize = 2
  /\ \A id \in Range(activePixels) :
       <<pixels[id].x, pixels[id].y>> /= <<ev.arg[1], ev.arg[2]>>

\* C24: clearAllPixels leaves the creation counter totalPixelCount at the
\* value it had before the call.
C24_ClearKeepsCounter ==
  [][(ev'.op = "ClearAll") => totalPixelCount' = totalPixelCount]_vars

\* C25: no two calls of addPixel return the same id: the id an add returns
\* was returned by no earlier add, whatever happened in between.
C25_IdsUnique ==
  [][(ev'.op = "AddPixel") => ev'.id \notin issuedIds]_vars

\* C26: addPixel never fails: from every state of the store it raises
\* nothing and returns an id that named no entity of the store before the
\* call and names the new entity, at the place and in the layer asked for,
\* in activePixels after it.
C26_AddNeverFails ==
  [][(ev'.op = "AddPixel") =>
       /\ ev'.exc = "none"
       /\ ev'.id /= <<>>
       /\ ev'.id \notin Range(activePixels)
       /\ ev'.id \in Range(activePixels')
       /\ <<pixels'[ev'.id].x, pixels'[ev'.id].y>> = ev'.arg
       /\ ev'.id \in Range(pixelLayers'[pixels'[ev'.id].penType])]_vars

\* an add onto a store holding maxTotalPixels entities, which evicted one
C26_Witness ==
  /\ ev.op = "AddPixel" /\ ev.evicted = 1 /\ ev.exc = "none"
  /\ ev.id \in Range(activePixels)
  /\ ev.id[1] = maxTotalPixels
  /\ StoreSize = maxTotalPixels

\* rank of a layer in the stacking order: marker at the bottom, spray in
\* the middle, pencil on top
LayerRank(l) == IF l = "marker" THEN 1 ELSE IF l = "spray" THEN 2 ELSE 3

\* the ids of the paints of the last step, in the order of painting
PaintedIds == [i \in 1..Len(ev.painted) |-> ev.painted[i].id]

C28_InsertionOrderInLayer ==
  (ev.op = "RenderFrame") =>
    \A l \in LayerKeys :
      SelectSeq(PaintedIds, LAMBDA id : pixels[id].penType = l)
        = pixelLayers[l]

\* C29: the drawing of one entity leaves fillStyle and globalAlpha of the
\* context with the values they had before it.
C29_DrawRestoresContext ==
  [][(ev'.op \in {"Draw", "DrawOptimized"}) => ctx' = ctx]_vars

\* C30: a capture never hangs on the snapshot: with the platform free to
\* leave the snapshot call unanswered, every capture that has begun comes to
\* its end, with the stills or with an error.
C30_CaptureEnds == (capPc /= "idle") ~> (capPc = "idle")

\* a capture that ended in an error because the timer fired on the
\* snapshot of its second frame
C30_Witness ==
  /\ ev.op = "SnapshotDone" /\ ev.snap = "timeout"
  /\ capPc = "idle"
  /\ capResult.status = "error" /\ capResult.failedAt = 1

\* C33: at most one animation-frame callback of the loop is pending at any
\* time, whatever sequence of start, stop, pause, resume and ticks led there.
C33_OnePendingCallback == Cardinality(rafPending) <= 1

\* C34: once destroy() has been called the loop is not running and stays
\* destroyed, and no later step, a call of its interface or a callback
\* that was already scheduled, requests a frame, advances the entities or
\* renders.
C34_DestroyedNeverRuns ==
  [][/\ (isDestroyed' => (~isRunning' /\ animationId' = NoId))
     /\ (isDestroyed => /\ isDestroyed'
                        /\ rafPending' \subseteq rafPending
                        /\ ~ev'.adv
                        /\ ~ev'.ren)]_vars

\* a callback that was pending when the loop was destroyed has run
C34_Witness ==
  /\ ev.op = "Tick" /\ isDestroyed /\ ~isRunning
  /\ StoreSize > 0 /\ now >= frameInterval

\* C35: with the canvas set and the loop neither paused nor destroyed, the
\* placing of a pixel leaves the loop running with its next tick scheduled,
\* whatever calls of the store and of the loop came before: the animation
\* is not left frozen with entities in the store.
C35_AddSchedulesTick ==
  [][(ev'.op = "PlacePixel" /\ canvas' /\ ~paused' /\ ~isDestroyed') =>
       (isRunning' /\ animationId' \in rafPending')]_vars

\* C31: a capture asked for while the store holds no entity is not refused:
\* called directly or through exportGif, with the canvas set, the cloud
\* there and no export or capture under way, it raises nothing and goes on
\* to its first still; and a capture of an empty store that ends well
\* returns CaptureFrames stills.
C31_EmptyCaptureIsNoError ==
  [][/\ (/\ ev'.op \in {"CaptureStart", "ExportGif"}
         /\ ev'.out /= "nocloud"
         /\ StoreSize = 0 /\ canvas /\ ~isExporting /\ capPc = "idle")
          => (ev'.exc = "none" /\ capPc' = "wait")
     /\ (/\ ev'.op = "SnapshotDone"
         /\ StoreSize = 0 /\ capResult'.status = "ok")
          => Len(capResult'.stills) = CaptureFrames]_vars

\* C36: an exportGif call made while an export is in progress is rejected
\* with an error and changes nothing: the export in progress goes on and no
\* capture is started.
C36_OneExportAtATime ==
  [][(ev'.op = "ExportGif" /\ isExporting) =>
       /\ ev'.exc = "rejected"
       /\ ProgramState' = ProgramState
       /\ <<isExporting, exp, capPc, frameIndex, imagePaths, capResult>>'
            = <<isExporting, exp, capPc, frameIndex, imagePaths, capResult>>
       /\ capLog' = capLog]_vars

\* an exportGif call rejected during the upload of the first export
C36_Witness ==
  /\ ev.op = "ExportGif" /\ ev.exc = "rejected"
  /\ exp.pc = "upload" /\ exp.i = 1

\* C37: isExporting is set only while an export is in progress: every end
\* of an export, by success or by any failure, releases it, so that an
\* exportGif call is rejected only while an earlier export has not ended.
C37_FlagReleased ==
  /\ isExporting <=> (exp.pc /= "idle")
  /\ (ev.op = "ExportGif" /\ ev.exc = "rejected") => exp.pc /= "idle"

\* an exportGif call accepted after an export that ended in an error
C37_Witness ==
  /\ ev.op = "ExportGif" /\ ev.exc = "none"
  /\ isExporting /\ exp.pc = "capture" /\ exp.result = "error"

\* C38: uploadImagesToCloud makes at most maxRetries + 1 attempts for each
\* image, and the attempt that fails with maxRetries failures before it for
\* the same image ends the upload with an error at once.
C38_BoundedRetries ==
  [][(ev'.op = "UploadDone") =>
       /\ \A k \in 1..Len(exp'.attempts) : exp'.attempts[k] <= maxRetries + 1
       /\ (ev'.out = "fail" /\ exp.attempts[exp.i + 1] = maxRetries)
            => (exp'.pc = "idle" /\ exp'.result = "error" /\ ~isExporting')
       /\ (ev'.out = "fail" /\ exp.attempts[exp.i + 1] < maxRetries)
            => exp'.pc = "backoff"]_vars

\* the upload gave up on its second image after maxRetries + 1 attempts
C38_Witness ==
  /\ ev.op = "UploadDone" /\ ev.out = "fail"
  /\ exp.pc = "idle" /\ exp.result = "error"
  /\ exp.attempts = <<1, maxRetries + 1, 0>>

\* the vertical offset of frame 1 of the frame data e.frames
JitterDy(e) == e.frames[2][1][2] - e.frames[1][1][2]

\* a brush animated a shape that is not empty in the step recorded in e
Animated(e) == e.op = "DrawShape" /\ Len(e.frames[1]) > 0

\* C32: for a shape that is not empty the animator returns the shape as
\* frame 0, the shape moved by (-intensity, -intensity * k) as frame 1 and
\* by (+intensity, +intensity * k) as frame 2, with one damping factor k
\* for every intensity: the vertical offsets of two calls are to each other
\* as their intensities.
C32_JitterFrames ==
  [][Animated(ev') =>
       /\ Len(ev'.frames) = 3
       /\ ev'.frames[2]
            = Shift(ev'.frames[1], -ev'.arg[1], JitterDy(ev'))
       /\ ev'.frames[3]
            = Shift(ev'.frames[1], ev'.arg[1], -JitterDy(ev'))
       /\ Animated(ev) =>
            JitterDy(ev) * ev'.arg[1] = JitterDy(ev') * ev.arg[1]]_vars

\* C39: the frame manager returns, for a shape and an intensity, the frames
\* a fresh generation gives for them, whether the pool served the call or
\* not.
C39_PoolReturnsFreshFrames ==
  ev.op = "GenerateFrames" =>
    ev.frames = createNewFrameData(ev.shape, ev.arg[1])

====
